---- MODULE Spec2Model ----
(***************************************************************************)
(* Model of binance-btc-live-tracker.                                      *)
(*                                                                         *)
(*   src/bitcoin_current_price.py  stream_latest_price: the reconnecting   *)
(*                                 websocket generator with backoff.       *)
(*   src/app.py                    _bg_runner.consume: the feed thread     *)
(*                                 that stamps each price and keeps only   *)
(*                                 the freshest tick in tick_queue; the    *)
(*                                 live update loop of the script: drain,  *)
(*                                 x range, trim, y range, plot, sleep.    *)
(*                                                                         *)
(* Two threads run: the feed thread (generator and consume are one         *)
(* coroutine chain) and the script thread.  Each queue call is atomic      *)
(* (queue.Queue takes its mutex), every other statement of a thread only   *)
(* touches that thread's own data, so one action is one queue call or one  *)
(* run of thread-local statements.                                         *)
(*                                                                         *)
(* Times are whole seconds.  Prices are floats in the program; here a      *)
(* price is the integer  price * PriceScale,  so prices with a fractional  *)
(* part are exact.                                                         *)
(***************************************************************************)
EXTENDS Integers, Sequences, FiniteSets, TLC

VARIABLES
    now,            \* the wall clock, datetime.now(timezone.utc)
    \* ---- feed thread: stream_latest_price + consume
    fpc,            \* position of the feed thread
    backoff,        \* stream_latest_price.backoff
    connOpen,       \* the websocket of the current `async with` is open
    ts,             \* consume.ts
    price,          \* consume.price (scaled)
    \* ---- shared
    tick_queue,     \* queue.Queue(maxsize = 1) of <<ts, price>>
    \* ---- script thread: the live update loop
    rpc,            \* position of the script thread
    updated,        \* the loop's `updated`
    times,          \* st.session_state.times
    prices,         \* st.session_state.prices (scaled)
    now_utc,        \* the loop's now_utc
    x_start_utc,    \* the loop's x_start_utc
    x_end_utc,      \* the loop's x_end_utc
    low,            \* the loop's low  (unscaled: a multiple of the tick)
    high,           \* the loop's high (unscaled)
    \* ---- history variables (observers, never read by the program)
    msgs,           \* number of messages received so far
    fails,          \* consecutive failures since the last successful open
    slept,          \* no connection has ended without a sleep since the last open
    pending,        \* latest completed put since the latest take, or NoObs
    take,           \* the latest get_nowait of the script thread
    appended,       \* observations appended in the current tick
    removed,        \* timestamps removed by the latest trim pass
    plotted,        \* plotly_chart was called in the current tick
    first_ever,     \* <<timestamp of the first observation ever appended>>
    qid,            \* message numbers of the elements of tick_queue
    ids,            \* message numbers of the elements of times
    lost,           \* message numbers the feed thread drained from the queue
    fullHit,        \* put_nowait raised queue.Full at least once
    bad,            \* a malformed message has been received
    fresh,          \* the connection was opened after an outage (an ended
                    \* connection or a failed connect) and its first
                    \* message has not been put yet
    qfresh,         \* for each element of tick_queue: it is such a message
    resumed         \* such a message was appended in the current tick

feedVars   == <<fpc, backoff, connOpen, ts, price>>
renderVars == <<rpc, updated, times, prices, now_utc, x_start_utc, x_end_utc,
                low, high>>
ghostVars  == <<msgs, fails, slept, pending, take, appended,
                removed, plotted, first_ever, qid, ids, lost, fullHit,
                bad, fresh, qfresh, resumed>>
vars       == <<now, feedVars, tick_queue, renderVars, ghostVars>>

(***************************************************************************)
(* Program constants.                                                      *)
(***************************************************************************)
WINDOW_SECS     == 1200
Y_TICK_INTERVAL == 250
MAXSIZE         == 1
BACKOFF_START   == 1
BACKOFF_CAP     == 32

(***************************************************************************)
(* Bounds of the model.                                                    *)
(***************************************************************************)
PriceScale == 2     \* a price p of the program is the integer p * PriceScale
MaxMsgs    == 2     \* messages received in a run
MaxFails   == 7     \* consecutive failures followed, feed thread alone
MaxNow     == 1800  \* the clock stops here
MaxPipeFails == 1   \* consecutive failures followed when the script thread runs too

\* The clock moves in steps of half the window, so that a timestamp can be
\* younger than, exactly as old as, and older than the window.
Delays == {WINDOW_SECS \div 2}

\* 100 (between two multiples of Y_TICK_INTERVAL), 250.5 (less than 1 above a
\* multiple) and 500 (a multiple) at PriceScale = 2.
Prices == {100 * PriceScale, Y_TICK_INTERVAL * PriceScale + 1,
           2 * Y_TICK_INTERVAL * PriceScale}

NoObs  == <<>>

Min(a, b) == IF a <= b THEN a ELSE b
Max(a, b) == IF a >= b THEN a ELSE b

RECURSIVE SeqMin(_)
SeqMin(s) == IF Len(s) = 1 THEN s[1] ELSE Min(s[1], SeqMin(Tail(s)))

RECURSIVE SeqMax(_)
SeqMax(s) == IF Len(s) = 1 THEN s[1] ELSE Max(s[1], SeqMax(Tail(s)))

RECURSIVE Pow2(_)
Pow2(n) == IF n = 0 THEN 1 ELSE 2 * Pow2(n - 1)

Range(s) == {s[k] : k \in 1..Len(s)}

(***************************************************************************)
(* The clock.                                                              *)
(***************************************************************************)
Clock ==
    /\ \E d \in Delays : now + d <= MaxNow /\ now' = now + d
    /\ UNCHANGED <<feedVars, tick_queue, renderVars, ghostVars>>

(***************************************************************************)
(* stream_latest_price                                                     *)
(***************************************************************************)
\* backoff = min(backoff * 2, 32)
NoCapBackoff(b) == b * 2
NextBackoff(b) == Min(b * 2, BACKOFF_CAP)

\* backoff = 1 # reset after successful connect
ResetBackoff(b) == BACKOFF_START

\* except (ConnectionClosedError, ConnectionClosedOK, InvalidStatusCode, OSError)
Handled == {"ConnectionClosedError", "ConnectionClosedOK",
            "InvalidStatusCode", "OSError"}

\* What websockets.connect raises when the connection cannot be opened.
ConnectErrors == {"InvalidStatusCode", "OSError"}

\* What json.loads(msg), data["c"] and float(...) raise on a malformed message.
DecodeErrors == {"JSONDecodeError", "KeyError", "ValueError"}

\* Exception e leaves the try block.  One the except clause names is handled:
\* await asyncio.sleep(backoff).  Any other leaves the generator and consume,
\* asyncio.run re-raises it and the feed thread ends.
\* cap bounds the consecutive failures a run is followed through.
Raised(e, cap) ==
    IF e \in Handled
    THEN /\ fails < cap
         /\ fpc' = "sleep"
         /\ fails' = fails + 1
         /\ slept' = TRUE
    ELSE /\ fpc' = "failed"
         /\ UNCHANGED <<fails, slept>>

\* Leaving `async with websockets.connect(...) as ws` closes the connection,
\* whether the block ends normally or by an exception.
LeakConn(c) == c
AexitClose(c) == FALSE

\* websockets.connect(...) succeeds: __aenter__ returns, backoff = 1, and the
\* generator waits for a message.
ConnectOk ==
    /\ fpc = "connect"
    /\ fpc' = "recv"
    /\ connOpen' = TRUE
    /\ backoff' = ResetBackoff(backoff)
    /\ fails' = 0
    /\ slept' = TRUE
    /\ fresh' = (fails > 0 \/ ~slept)
    /\ UNCHANGED <<bad, qfresh, resumed>>
    /\ UNCHANGED <<now, ts, price, tick_queue, renderVars, msgs, pending, take, appended, removed, plotted,
                   first_ever, qid, ids, lost, fullHit>>

\* websockets.connect(...) raises.
ConnectFail(cap) ==
    /\ fpc = "connect"
    /\ \E e \in ConnectErrors : Raised(e, cap)
    /\ UNCHANGED <<bad, fresh, qfresh, resumed>>
    /\ UNCHANGED <<now, backoff, connOpen, ts, price, tick_queue, renderVars,
                   msgs, pending, take, appended, removed, plotted,
                   first_ever, qid, ids, lost, fullHit>>

\* asyncio.sleep(backoff) returns; backoff = min(backoff * 2, 32); while True.
Wake ==
    /\ fpc = "sleep"
    /\ fpc' = "connect"
    /\ backoff' = NextBackoff(backoff)
    /\ UNCHANGED <<now, connOpen, ts, price, tick_queue, renderVars, ghostVars>>

\* `async for msg in ws` raises ConnectionClosedError; the `async with` closes
\* the connection on the way out.
RecvClosedError(cap) ==
    /\ fpc = "recv"
    /\ connOpen' = AexitClose(connOpen)
    /\ Raised("ConnectionClosedError", cap)
    /\ fresh' = FALSE
    /\ UNCHANGED <<bad, qfresh, resumed>>
    /\ UNCHANGED <<now, backoff, ts, price, tick_queue, renderVars, msgs,
                   pending, take, appended, removed, plotted, first_ever,
                   qid, ids, lost, fullHit>>

\* The connection is closed normally: the iteration of `async for msg in ws`
\* ends without raising, the `async with` closes the connection, the except
\* clause is not entered and `while True` opens the next connection.
RecvClosedOK ==
    /\ fpc = "recv"
    /\ connOpen' = AexitClose(connOpen)
    /\ fpc' = "connect"
    /\ slept' = FALSE
    /\ fresh' = FALSE
    /\ UNCHANGED <<bad, qfresh, resumed>>
    /\ UNCHANGED <<now, backoff, ts, price, tick_queue, renderVars, msgs,
                   fails, pending, take, appended, removed,
                   plotted, first_ever, qid, ids, lost, fullHit>>

\* A message arrives and decodes: price = float(data["c"]); yield price; and
\* consume stamps it, ts = datetime.now(timezone.utc).
RecvMessage ==
    /\ fpc = "recv"
    /\ msgs < MaxMsgs
    /\ \E p \in Prices : price' = p
    /\ ts' = now
    /\ msgs' = msgs + 1
    /\ fpc' = "drain"
    /\ UNCHANGED <<bad, fresh, qfresh, resumed>>
    /\ UNCHANGED <<now, backoff, connOpen, tick_queue, renderVars, fails, slept, pending, take, appended, removed,
                   plotted, first_ever, qid, ids, lost, fullHit>>

\* A message arrives that json.loads, data["c"] or float rejects; the
\* `async with` closes the connection on the way out.
RecvMalformed ==
    /\ fpc = "recv"
    /\ connOpen' = AexitClose(connOpen)
    /\ \E e \in DecodeErrors : Raised(e, 0)
    /\ bad' = TRUE
    /\ fresh' = FALSE
    /\ UNCHANGED <<qfresh, resumed>>
    /\ UNCHANGED <<now, backoff, ts, price, tick_queue, renderVars, msgs,
                   pending, take, appended, removed, plotted, first_ever,
                   qid, ids, lost, fullHit>>

\* The task that iterates the generator is cancelled (asyncio.run cancels
\* its tasks when it is interrupted): CancelledError is raised at the await
\* the generator is suspended in, the `async with` closes the connection if
\* one is open, no except clause catches it, and the generator ends.
Cancel ==
    /\ fpc \in {"connect", "recv", "sleep"}
    /\ fpc' = "cancelled"
    /\ connOpen' = AexitClose(connOpen)
    /\ fresh' = FALSE
    /\ UNCHANGED <<now, backoff, ts, price, tick_queue, renderVars, msgs,
                   fails, slept, pending, take, appended, removed, plotted,
                   first_ever, qid, ids, lost, fullHit, bad, qfresh,
                   resumed>>

(***************************************************************************)
(* _bg_runner.consume: keep only the freshest tick.                        *)
(***************************************************************************)
\* The feed thread is between the start of its drain and the end of its put.
MidPut == fpc \in {"drain", "put"}

\* while True: tick_queue.get_nowait()   /   except queue.Empty: pass
\* One get_nowait: an element is removed and the loop goes on, or queue.Empty
\* ends the loop.
DrainDoneNow(q) == TRUE
DrainDone(q) == q = <<>>

FeedDrain ==
    /\ fpc = "drain"
    /\ IF DrainDone(tick_queue)
       THEN /\ fpc' = "put"
            /\ UNCHANGED <<tick_queue, qid, qfresh, lost>>
       ELSE /\ tick_queue' = Tail(tick_queue)
            /\ qid' = Tail(qid)
            /\ qfresh' = Tail(qfresh)
            /\ lost' = lost \cup {Head(qid)}
            /\ fpc' = "drain"
    /\ UNCHANGED <<bad, fresh, resumed>>
    /\ UNCHANGED <<now, backoff, connOpen, ts, price, renderVars, msgs, fails, slept, pending, take, appended, removed,
                   plotted, first_ever, ids, fullHit>>

\* tick_queue.put_nowait((ts, price))   /   except queue.Full: pass
\* and the generator goes back to wait for the next message.
FeedPut ==
    /\ fpc = "put"
    /\ IF Len(tick_queue) < MAXSIZE
       THEN /\ tick_queue' = Append(tick_queue, <<ts, price>>)
            /\ qid' = Append(qid, msgs)
            /\ qfresh' = Append(qfresh, fresh)
            /\ UNCHANGED fullHit
       ELSE /\ fullHit' = TRUE
            /\ UNCHANGED <<tick_queue, qid, qfresh>>
    /\ pending' = <<ts, price>>
    /\ fpc' = "recv"
    /\ fresh' = FALSE
    /\ UNCHANGED <<bad, resumed>>
    /\ UNCHANGED <<now, backoff, connOpen, ts, price, renderVars, msgs, fails, slept, take, appended, removed, plotted,
                   first_ever, ids, lost>>

(***************************************************************************)
(* The live update loop of app.py.                                         *)
(***************************************************************************)
\* if now_utc - first_utc < window: x_start_utc = first_utc
\* else:                            x_start_utc = now_utc - window
AlwaysSlideStart(first_utc, n) == n - WINDOW_SECS
XStart(first_utc, n) ==
    IF n - first_utc < WINDOW_SECS THEN first_utc ELSE n - WINDOW_SECS

\* x_end_utc = first_utc + window   /   x_end_utc = now_utc
XEnd(first_utc, n) ==
    IF n - first_utc < WINDOW_SECS THEN first_utc + WINDOW_SECS ELSE n

\* i = 0; while i < len(times_utc) and times_utc[i] < x_start_utc: i += 1
RECURSIVE TrimCountInclusive(_, _)
TrimCountInclusive(t, xs) ==
    IF t # <<>> /\ Head(t) <= xs THEN 1 + TrimCountInclusive(Tail(t), xs) ELSE 0

RECURSIVE TrimCount(_, _)
TrimCount(t, xs) ==
    IF t # <<>> /\ Head(t) < xs THEN 1 + TrimCount(Tail(t), xs) ELSE 0

DropLast(s, i) == SubSeq(s, 1, Len(s) - i)

\* times_utc[i:]
Drop(s, i) == SubSeq(s, i + 1, Len(s))

YLowNoMargin(p) == (p \div (Y_TICK_INTERVAL * PriceScale)) * Y_TICK_INTERVAL

\* low = (int((ymin - Y_TICK_INTERVAL) // Y_TICK_INTERVAL)) * Y_TICK_INTERVAL
\* On floats // is the floor of the quotient; p is ymin * PriceScale.
YLow(p) ==
    ((p - Y_TICK_INTERVAL * PriceScale) \div (Y_TICK_INTERVAL * PriceScale))
        * Y_TICK_INTERVAL

\* high = (int((ymax + Y_TICK_INTERVAL + Y_TICK_INTERVAL - 1) // Y_TICK_INTERVAL))
\*            * Y_TICK_INTERVAL
YHigh(p) ==
    ((p + (Y_TICK_INTERVAL + Y_TICK_INTERVAL - 1) * PriceScale)
        \div (Y_TICK_INTERVAL * PriceScale)) * Y_TICK_INTERVAL

\* while True: updated = False
RenderTop ==
    /\ rpc = "top"
    /\ rpc' = "drain"
    /\ updated' = FALSE
    /\ appended' = 0
    /\ plotted' = FALSE
    /\ take' = [got |-> NoObs, pending |-> NoObs, midput |-> FALSE]
    /\ resumed' = FALSE
    /\ UNCHANGED <<bad, fresh, qfresh>>
    /\ UNCHANGED <<now, feedVars, tick_queue, times, prices, now_utc,
                   x_start_utc, x_end_utc, low, high, msgs, fails, slept,
                   pending, removed, first_ever, qid, ids, lost, fullHit>>

\* One turn of   while True: ts_utc, p = tick_queue.get_nowait(); append;
\* append; updated = True   or the queue.Empty that ends the loop.
RenderGet ==
    /\ rpc = "drain"
    /\ take' = [got |-> IF tick_queue = <<>> THEN NoObs ELSE Head(tick_queue),
                pending |-> pending, midput |-> MidPut]
    /\ pending' = NoObs
    /\ IF tick_queue = <<>>
       THEN /\ rpc' = "update"
            /\ UNCHANGED <<tick_queue, qid, qfresh, times, prices, ids,
                           updated, appended, first_ever, resumed>>
       ELSE /\ tick_queue' = Tail(tick_queue)
            /\ qid' = Tail(qid)
            /\ qfresh' = Tail(qfresh)
            /\ resumed' = (resumed \/ Head(qfresh))
            /\ times' = Append(times, Head(tick_queue)[1])
            /\ prices' = Append(prices, Head(tick_queue)[2])
            /\ ids' = Append(ids, Head(qid))
            /\ updated' = TRUE
            /\ appended' = appended + 1
            /\ first_ever' = IF first_ever = <<>>
                             THEN <<Head(tick_queue)[1]>>
                             ELSE first_ever
            /\ rpc' = "drain"
    /\ UNCHANGED <<bad, fresh>>
    /\ UNCHANGED <<now, feedVars, now_utc, x_start_utc, x_end_utc, low, high,
                   msgs, fails, slept, removed, plotted, lost,
                   fullHit>>

\* if updated and st.session_state.prices: ... plot_area.plotly_chart(...)
\* time.sleep(REFRESH_SECONDS)
\* With i > 0 the two session lists are replaced and the next statement,
\* times_utc = st.session_steate.times, raises AttributeError (streamlit has no
\* attribute session_steate): the script run ends there.
\* plot_area.plotly_chart either draws the figure or raises; nothing in the
\* loop catches what it raises, so the script run ends there too.
RenderUpdate ==
    /\ rpc = "update"
    /\ IF updated /\ prices # <<>>
       THEN LET xs == XStart(times[1], now)
                i  == TrimCount(times, xs)
            IN  /\ now_utc' = now
                /\ x_start_utc' = xs
                /\ x_end_utc' = XEnd(times[1], now)
                /\ removed' = SubSeq(times, 1, i)
                /\ IF i # 0
                   THEN /\ times' = Drop(times, i)
                        /\ prices' = Drop(prices, i)
                        /\ ids' = Drop(ids, i)
                        /\ rpc' = "crashed"
                        /\ UNCHANGED <<low, high, plotted>>
                   ELSE /\ low' = YLow(SeqMin(prices))
                        /\ high' = YHigh(SeqMax(prices))
                        /\ \E drawn \in BOOLEAN :
                              /\ plotted' = drawn
                              /\ rpc' = IF drawn THEN "top" ELSE "plot_failed"
                        /\ UNCHANGED <<times, prices, ids>>
       ELSE /\ rpc' = "top"
            /\ UNCHANGED <<times, prices, ids, now_utc, x_start_utc, x_end_utc,
                           low, high, removed, plotted>>
    /\ UNCHANGED <<bad, fresh, qfresh, resumed>>
    /\ UNCHANGED <<now, feedVars, tick_queue, updated, msgs, fails, slept,
                   pending, take, appended, first_ever, qid, lost, fullHit>>

(***************************************************************************)
(* The program.                                                            *)
(***************************************************************************)
Init ==
    /\ now = 0
    /\ fpc = "connect"
    /\ backoff = BACKOFF_START
    /\ connOpen = FALSE
    /\ ts = 0
    /\ price = 0
    /\ tick_queue = <<>>
    /\ rpc = "top"
    /\ updated = FALSE
    /\ times = <<>>
    /\ prices = <<>>
    /\ now_utc = 0
    /\ x_start_utc = 0
    /\ x_end_utc = 0
    /\ low = 0
    /\ high = 0
    /\ msgs = 0
    /\ fails = 0
    /\ slept = TRUE
    /\ pending = NoObs
    /\ take = [got |-> NoObs, pending |-> NoObs, midput |-> FALSE]
    /\ appended = 0
    /\ removed = <<>>
    /\ plotted = FALSE
    /\ first_ever = <<>>
    /\ qid = <<>>
    /\ ids = <<>>
    /\ lost = {}
    /\ fullHit = FALSE
    /\ bad = FALSE
    /\ fresh = FALSE
    /\ qfresh = <<>>
    /\ resumed = FALSE

\* The feed thread alone, under a consumer that may be cancelled (the script
\* of app.py never cancels its feed thread).
NextFeed ==
    \/ Clock
    \/ ConnectOk
    \/ ConnectFail(MaxFails)
    \/ Wake
    \/ RecvClosedError(MaxFails)
    \/ RecvClosedOK
    \/ RecvMessage
    \/ RecvMalformed
    \/ FeedDrain
    \/ FeedPut
    \/ Cancel

SpecFeed == Init /\ [][NextFeed]_vars

\* The feed thread and the script thread.
Next ==
    \/ Clock
    \/ ConnectOk
    \/ ConnectFail(MaxPipeFails)
    \/ Wake
    \/ RecvClosedError(MaxPipeFails)
    \/ RecvClosedOK
    \/ RecvMessage
    \/ RecvMalformed
    \/ FeedDrain
    \/ FeedPut
    \/ RenderTop
    \/ RenderGet
    \/ RenderUpdate

Spec == Init /\ [][Next]_vars

TypeOK ==
    /\ fpc \in {"connect", "recv", "sleep", "drain", "put", "failed",
               "cancelled"}
    /\ rpc \in {"top", "drain", "update", "crashed", "plot_failed"}
    /\ Len(times) = Len(prices)
    /\ Len(times) = Len(ids)
    /\ Len(tick_queue) = Len(qid)

(***************************************************************************)
(* What the specification says, for comparison with the code.              *)
(***************************************************************************)
\* floor(a / b) and ceil(a / b) for b > 0
FloorDiv(a, b) == a \div b
CeilDiv(a, b) == -((-a) \div b)

\* low = floor((min_price - Y_TICK) / Y_TICK) * Y_TICK, p = min_price * PriceScale
StatedLow(p) ==
    FloorDiv(p - Y_TICK_INTERVAL * PriceScale, Y_TICK_INTERVAL * PriceScale)
        * Y_TICK_INTERVAL

\* high = ceil((max_price + Y_TICK) / Y_TICK) * Y_TICK, p = max_price * PriceScale
StatedHigh(p) ==
    CeilDiv(p + Y_TICK_INTERVAL * PriceScale, Y_TICK_INTERVAL * PriceScale)
        * Y_TICK_INTERVAL

\* The script thread has plotted in the current tick and has changed nothing
\* since: the variables hold what was handed to the rendering surface.
Redrawn == plotted /\ rpc = "top"

\* The trim pass of the current tick has run.
TrimPassed == updated /\ rpc \in {"top", "crashed", "plot_failed"}

(***************************************************************************)
(* Claims.                                                                 *)
(***************************************************************************)

\* C1: the render loop runs forever: every tick that drained an observation
\* ends with the plot handed over and the next tick following, also when its
\* trim pass evicts entries.
C1_EveryUpdatedTickPlots ==
    /\ rpc # "crashed"
    /\ (updated /\ rpc = "top") => plotted

\* C2: stream_latest_price never ends on its own and never surfaces an error:
\* unless its consumer cancelled it, the feed thread is always connecting,
\* connected (waiting for a message or delivering one) or sleeping in backoff.
C2_NeverTerminates ==
    fpc \in {"connect", "recv", "drain", "put", "sleep", "cancelled"}

\* C3: the sleeps of consecutive failures are 1, 2, 4, 8, 16, 32, 32, ...: the
\* k-th failure since the last successful open (or since the start) sleeps
\* 2^min(k-1, 5) seconds, so the first failure after an open sleeps 1; and
\* backoff is always one of 1, 2, 4, 8, 16, 32.
C3_BackoffSequence ==
    /\ backoff \in {1, 2, 4, 8, 16, 32}
    /\ fpc = "sleep" => backoff = Pow2(Min(fails - 1, 5))
    /\ fpc = "connect" => backoff = Pow2(Min(fails, 5))
    /\ fpc \in {"recv", "drain", "put"} => backoff = 1 /\ fails = 0

\* The feed thread sleeps 32 s for the second time in a row, in a run that
\* had opened a connection and received a message before.
C3_Witness ==
    /\ fpc = "sleep"
    /\ fails = MaxFails
    /\ backoff = 32
    /\ msgs > 0

\* C4: latest-wins.  The slot never holds more than one observation; whenever
\* no put is in progress it holds exactly the latest put completed since the
\* latest take (nothing if there is none); so a take that runs while no put
\* is in progress returns that observation, or empty.
C4_LatestWins ==
    /\ Len(tick_queue) <= 1
    /\ ~MidPut =>
         tick_queue = (IF pending = NoObs THEN <<>> ELSE <<pending>>)
    /\ ~take.midput => take.got = take.pending

\* Message 1 was put and overwritten by message 2 with no take in between,
\* and the take that followed returned message 2.
C4_Witness ==
    /\ lost = {1}
    /\ ids = <<2>>
    /\ ~take.midput
    /\ take.got # NoObs
    /\ take.got = take.pending

\* C5: under every interleaving a take returns the freshest observation put
\* before it, and is empty only if nothing was put since the previous take.
C5_TakeFreshest ==
    take.got = take.pending

\* C6: a render tick appends at most one observation, and an observation
\* that was overwritten in the slot never appears in History.
C6_OnePerTick ==
    /\ appended <= 1
    /\ Range(ids) \cap lost = {}

C8_TrimMonotone ==
    TrimPassed =>
        /\ \A t \in Range(times) : t >= x_start_utc /\ t >= now_utc - WINDOW_SECS
        /\ \A t \in Range(removed) : t < x_start_utc
        /\ times # <<>> => times[1] >= x_start_utc

\* A trim pass that removed entries and kept others.
C8_Witness ==
    /\ TrimPassed
    /\ removed # <<>>
    /\ times # <<>>

\* C9: the y range handed to the renderer is
\* low = floor((min - Y_TICK) / Y_TICK) * Y_TICK and
\* high = ceil((max + Y_TICK) / Y_TICK) * Y_TICK, for every price.
C9_YRangeFormula ==
    Redrawn =>
        /\ low = StatedLow(SeqMin(prices))
        /\ high = StatedHigh(SeqMax(prices))

\* C10: on every redraw low and high are multiples of Y_TICK and leave at
\* least one tick of margin below the minimum and above the maximum price.
C10_YRangeMargin ==
    Redrawn =>
        /\ low % Y_TICK_INTERVAL = 0
        /\ high % Y_TICK_INTERVAL = 0
        /\ SeqMin(prices) - low * PriceScale >= Y_TICK_INTERVAL * PriceScale
        /\ high * PriceScale - SeqMax(prices) >= Y_TICK_INTERVAL * PriceScale

\* C11: every reopening of the connection that follows the end of a previous
\* connection or a failed connect is preceded by a sleep of the current
\* backoff, also when the connection was closed normally: the generator is
\* never about to connect after a connection ended without a sleep.
C11_SleepBeforeReopen ==
    fpc = "connect" => slept

\* C12: a malformed inbound message fails the connection and triggers a
\* reconnect: once one has been received the connection it came on is closed
\* and the stream is sleeping, reconnecting or connected again (or was
\* cancelled by its consumer), so that later prices are yielded.
C12_MalformedReconnects ==
    bad => /\ fpc \in {"sleep", "connect", "recv", "drain", "put", "cancelled"}
           /\ fpc \in {"sleep", "connect"} => ~connOpen

\* C13: after a feed outage of any length the series resumes: the tick that
\* appends the first observation received after the reconnect (here: that
\* observation alone, stamped at the time of the tick) trims History to the
\* window and hands it to the rendering surface.
C13_SeriesResumes ==
    ( /\ updated /\ rpc \in {"top", "crashed"}
      /\ resumed /\ appended = 1
      /\ times # <<>> /\ times[Len(times)] = now_utc ) =>
        /\ plotted
        /\ \A t \in Range(times) : t >= now_utc - WINDOW_SECS

\* C14: at most one connection is open at any time and the connection of a
\* cycle is closed before the next connection attempt, however the cycle
\* ended: a connection is open only while the generator is inside its
\* `async with` block, never when it is about to connect, sleeping, failed
\* or cancelled.
C14_ClosedBeforeReconnect ==
    /\ fpc \in {"connect", "sleep", "failed", "cancelled"} => ~connOpen
    /\ fpc \in {"recv", "drain", "put"} => connOpen

\* The generator is about to reconnect right after a connection that had
\* delivered a message ended normally.
C14_Witness ==
    /\ fpc = "connect"
    /\ ~slept
    /\ msgs > 0
    /\ ~connOpen

\* C15: a failure of the plot call is fatal to that render tick only: the
\* render loop is never ended by it and goes on with the next tick (the feed
\* thread keeps running either way).
C15_PlotFailureSkipsTick ==
    rpc # "plot_failed"

\* C16 as stated: whenever History holds exactly one observation the y range
\* handed to the renderer satisfies low = high - 2 * Y_TICK, for every price.
C16_SinglePointTwoTicks ==
    (Redrawn /\ Len(prices) = 1) => low = high - 2 * Y_TICK_INTERVAL

\* C16, amended: with exactly one observation in History, high - low is
\* 2 * Y_TICK when the price is a multiple of Y_TICK and 3 * Y_TICK when the
\* price is 1 or more above a multiple of Y_TICK; it is never anything but
\* one of the two.
C16_SinglePointSpan ==
    (Redrawn /\ Len(prices) = 1) =>
        LET r == prices[1] % (Y_TICK_INTERVAL * PriceScale)
        IN  /\ high - low \in {2 * Y_TICK_INTERVAL, 3 * Y_TICK_INTERVAL}
            /\ r = 0 => high - low = 2 * Y_TICK_INTERVAL
            /\ r >= PriceScale => high - low = 3 * Y_TICK_INTERVAL

\* A redraw of a single observation whose price lies between two multiples
\* of Y_TICK.
C16_Witness ==
    /\ Redrawn
    /\ Len(prices) = 1
    /\ prices[1] % (Y_TICK_INTERVAL * PriceScale) >= PriceScale
    /\ high - low = 3 * Y_TICK_INTERVAL

\* s is non-decreasing / strictly increasing.
NonDecreasing(s) == \A j, k \in 1..Len(s) : j <= k => s[j] <= s[k]
Increasing(s) == \A j, k \in 1..Len(s) : j < k => s[j] < s[k]

\* t is s with one element appended / with a non-empty prefix removed.
IsAppend(s, t) == Len(t) = Len(s) + 1 /\ SubSeq(t, 1, Len(s)) = s
IsPrefixTrim(s, t) == \E k \in 1..Len(s) : t = SubSeq(s, k + 1, Len(s))

\* C17: in every reachable state the timestamps of History are
\* non-decreasing and its observations are in the order they were stamped,
\* under every interleaving of the two threads; History only grows by an
\* append at the end and only shrinks by the removal of a prefix.
C17_HistoryOrdered ==
    /\ [](NonDecreasing(times) /\ Increasing(ids))
    /\ [][\/ times' = times
          \/ IsAppend(times, times')
          \/ IsPrefixTrim(times, times')]_vars

\* An observation stamped later than the one already in History has just
\* been appended, in a later tick.
C17_Witness ==
    /\ rpc = "drain"
    /\ appended = 1
    /\ Len(times) = 2
    /\ times[1] < times[2]
    /\ ids = <<1, 2>>

\* C18: a put never blocks and never drops the observation being put: when
\* the feed thread has drained the queue its put_nowait finds the queue
\* empty under every interleaving with the script thread's takes, the
\* queue.Full branch is never taken, and after the put the queue holds
\* exactly the new observation until the script thread takes it or the feed
\* thread drains it for the next one.
C18_PutNeverFull ==
    /\ ~fullHit
    /\ fpc = "put" => tick_queue = <<>>
    /\ (pending # NoObs /\ ~MidPut) => tick_queue = <<pending>>

\* The feed thread has replaced an observation the script thread never took:
\* the put has returned and the queue holds the new observation alone.
C18_Witness ==
    /\ fpc = "recv"
    /\ lost # {}
    /\ pending = <<ts, price>>
    /\ tick_queue = <<pending>>

\* C19: after the trim pass of any tick History is not empty: the
\* observation appended in a tick is never evicted by the trim of that same
\* tick, whatever the delay between its receipt timestamp and the tick's
\* now, so the endpoint marker and the minimum and maximum of the prices are
\* defined when the plot is updated.
C19_HistoryNonEmptyAfterTrim ==
    TrimPassed => times # <<>>

====
